---- MODULE Spec2Model ----
(***************************************************************************)
(* Retrieval-augmented chat assistant: the server of                       *)
(* src/cohere-serverr/server.js (the second, current listing of the file,  *)
(* lines 215-419) and the chat UI of src/unnamed/part_000.                 *)
(*                                                                         *)
(* JavaScript values are modelled as follows.                              *)
(*   - an array is a sequence; an object is a record; a missing property   *)
(*     is a missing record field (doc.embedding of a document that was     *)
(*     never given one is "not in DOMAIN doc");                            *)
(*   - a variable that may hold null or an array holds a tagged record:    *)
(*     Null or Arr(seq);                                                   *)
(*   - an embedding is a sequence of integers; a cosine similarity is kept *)
(*     exactly, as a fraction (see cosineSimilarity).                      *)
(***************************************************************************)
EXTENDS Integers, Sequences, FiniteSets, TLC

(***************************************************************************)
(* Bounds of the model.                                                    *)
(***************************************************************************)
\* longest corpus handed to getTopKDocuments in SpecTopK
MaxDocs == 3
\* largest k handed to getTopKDocuments in SpecTopK
MaxK == 4
\* number of paths in the files array of loadDocuments
NumFiles == 3
\* POST /generate requests handled in one run
MaxRequests == 2
\* batchSize of embedDocumentsInBatches (96 by default), scaled to the corpus
BatchSize == 2

\* prompts the user sends in one run of the chat UI
MaxSends == 2

(***************************************************************************)
(* Program constants.                                                      *)
(***************************************************************************)
\* fetchWithRetry's retries = 3 and delay = 1000
retries == 3
delay == 1000
\* the k the /generate handler passes to getTopKDocuments
TopK == 5
\* await sleep(10000) after each batch of embedDocumentsInBatches
SleepMs == 10000

(***************************************************************************)
(* Generic helpers.                                                        *)
(***************************************************************************)
Min(a, b) == IF a <= b THEN a ELSE b
Max(a, b) == IF a >= b THEN a ELSE b

Null == [t |-> "null"]
Arr(s) == [t |-> "array", v |-> s]
IsArr(x) == x.t = "array"

RECURSIVE SumSeq(_)
SumSeq(s) == IF s = <<>> THEN 0 ELSE Head(s) + SumSeq(Tail(s))

SeqsUpTo(S, n) == UNION {[1..m -> S] : m \in 0..n}

(***************************************************************************)
(* Vector math and retrieval (pure functions).                             *)
(***************************************************************************)
\* vecA.reduce((sum, a, idx) => sum + a * vecB[idx], 0)
Dot(vecA, vecB) == SumSeq([idx \in 1..Len(vecA) |-> vecA[idx] * vecB[idx]])

Sgn(x) == IF x > 0 THEN 1 ELSE IF x < 0 THEN -1 ELSE 0

\* dotProduct / (magA * magB).  The quotient of a square root is not an integer,
\* so the score is kept as the exact fraction num/den of sgn(c) * c^2, where c is
\* the cosine: x |-> sgn(x) * x^2 is strictly increasing, so two scores compare
\* as the cosines do.  den = 0 is the NaN of a zero-magnitude vector.
cosineSimilarity(vecA, vecB) ==
    LET dotProduct == Dot(vecA, vecB)
        magA2 == Dot(vecA, vecA)
        magB2 == Dot(vecB, vecB)
    IN  [num |-> Sgn(dotProduct) * dotProduct * dotProduct, den |-> magA2 * magB2]

\* the sign of (x.score - y.score), for scores that are numbers (den > 0)
ScoreDiffSign(x, y) == Sgn(x.num * y.den - y.num * x.den)

\* the comparator of similarities.sort: (a, b) => b.score - a.score
SortCompareBug(a, b) == ScoreDiffSign(a.score, b.score)
SortCompare(a, b) == ScoreDiffSign(b.score, a.score)

\* Array.prototype.sort is stable: an item goes after every item already placed
\* that the comparator does not put behind it.
RECURSIVE InsertSorted(_, _)
InsertSorted(sorted, item) ==
    IF sorted = <<>> THEN <<item>>
    ELSE IF SortCompare(Head(sorted), item) <= 0
         THEN <<Head(sorted)>> \o InsertSorted(Tail(sorted), item)
         ELSE <<item>> \o sorted

RECURSIVE SortSimilarities(_)
SortSimilarities(s) ==
    IF s = <<>> THEN <<>>
    ELSE InsertSorted(SortSimilarities(SubSeq(s, 1, Len(s) - 1)), s[Len(s)])

\* Array.prototype.slice(0, k): a negative k counts from the end
SliceBug(s, k) == SubSeq(s, 1, Min(k + 1, Len(s)))
Slice(s, k) ==
    IF k >= 0 THEN SubSeq(s, 1, Min(k, Len(s)))
    ELSE SubSeq(s, 1, Max(Len(s) + k, 0))

getTopKDocuments(queryEmbedding, documents, k) ==
    LET similarities == [i \in 1..Len(documents) |->
                           [doc |-> documents[i],
                            score |-> cosineSimilarity(queryEmbedding, documents[i].embedding)]]
        sorted == SortSimilarities(similarities)
        top == Slice(sorted, k)
    IN  [i \in 1..Len(top) |-> top[i].doc]

\* lines 245-251, seen from the caller: documents.map builds a new array of new
\* objects ({...doc, similarity}) and sort and slice work on that array, so the
\* array passed in keeps its documents, their order and their embeddings
DocumentsAfterTopKBug(queryEmbedding, documents) ==
    LET similarities == [i \in 1..Len(documents) |->
                           [doc |-> documents[i],
                            score |-> cosineSimilarity(queryEmbedding, documents[i].embedding)]]
        sorted == SortSimilarities(similarities)
    IN  [i \in 1..Len(sorted) |-> sorted[i].doc]
DocumentsAfterTopK(queryEmbedding, documents) == documents

(***************************************************************************)
(* JSON text and the embeddings cache file (pure functions).               *)
(*                                                                         *)
(* A JavaScript property read is Prop: the value, or undefined when the    *)
(* object has no such property.  A JSON text of an array of objects is the *)
(* sequence of its objects, each the sequence of its <<key, value>>        *)
(* members in the order they were written.                                 *)
(***************************************************************************)
Undefined == [def |-> FALSE]
Def(v) == [def |-> TRUE, v |-> v]
Prop(obj, key) == IF key \in DOMAIN obj THEN Def(obj[key]) ELSE Undefined

RECURSIVE DropUndefined(_)
DropUndefined(members) ==
    IF members = <<>> THEN <<>>
    ELSE IF Head(members)[2].def
         THEN <<Head(members)>> \o DropUndefined(Tail(members))
         ELSE DropUndefined(Tail(members))

\* JSON.stringify of an array of objects: a member whose value is undefined is left out
JSONStringify(objects) == [i \in 1..Len(objects) |-> DropUndefined(objects[i])]

\* JSON.parse of such a text: each object maps its keys to their (defined) values
ParseObject(members) ==
    LET keys == {members[i][1] : i \in 1..Len(members)}
    IN  [k \in keys |->
           LET i == CHOOSE j \in 1..Len(members) :
                       /\ members[j][1] = k
                       /\ \A l \in (j + 1)..Len(members) : members[l][1] # k
           IN  members[i][2].v]
JSONParse(text) == [i \in 1..Len(text) |-> ParseObject(text[i])]

\* what fs.readFile(EMBEDDINGS_FILE) finds: no file, a text that is not JSON, a
\* JSON text that is not an array of objects (an object, a number, null, [null]:
\* .length, .map or item.id throws a TypeError inside the try), or the JSON text
\* of an array of objects
FileMissing == [t |-> "missing"]
FileGarbage == [t |-> "garbage"]
FileNotArray == [t |-> "notArray"]
FileText(text) == [t |-> "text", v |-> text]

\* embeddingsData of saveEmbeddingsToFile, then JSON.stringify(embeddingsData, null, 2)
SaveRecordBug(doc) ==
    << <<"id", Prop(doc, "id")>>,
       <<"title", Prop(doc.data, "snippet")>>,
       <<"snippet", Prop(doc.data, "snippet")>>,
       <<"embedding", Prop(doc, "embedding")>> >>
SaveRecord(doc) ==
    << <<"id", Prop(doc, "id")>>,
       <<"title", Prop(doc.data, "title")>>,
       <<"snippet", Prop(doc.data, "snippet")>>,
       <<"embedding", Prop(doc, "embedding")>> >>
saveEmbeddingsToFile(documents) ==
    FileText(JSONStringify([i \in 1..Len(documents) |-> SaveRecord(documents[i])]))

\* an object built from property values: a property set to undefined reads as undefined
MkDocument(id, title, snippet, embedding) ==
    LET base == [id |-> id.v, data |-> [title |-> title.v, snippet |-> snippet.v]]
    IN  IF embedding.def
        THEN [id |-> id.v, data |-> [title |-> title.v, snippet |-> snippet.v],
              embedding |-> embedding.v]
        ELSE base

\* the try block of loadEmbeddingsFromFile; readFile, JSON.parse and .map (of a
\* value that is not an array) throw, and the catch returns null
LoadRecord(item) ==
    MkDocument(Prop(item, "id"), Prop(item, "title"), Prop(item, "snippet"),
               Prop(item, "embedding"))
loadEmbeddingsFromFileBug(file) ==
    IF file.t = "text" /\ Len(file.v) > 0
    THEN Arr([i \in 1..Len(file.v) |-> LoadRecord(JSONParse(file.v)[i])])
    ELSE Null
loadEmbeddingsFromFile(file) ==
    IF file.t = "text"
    THEN LET embeddingsData == JSONParse(file.v)
         IN  Arr([i \in 1..Len(embeddingsData) |-> LoadRecord(embeddingsData[i])])
    ELSE Null

(***************************************************************************)
(* The source documents and the providers.                                 *)
(***************************************************************************)
\* the files array of loadDocuments, with what the code derives from each path:
\* filename = file.split('/').pop().replace(/\.(md|txt)$/i, ''), cleanTitle =
\* filename with '_' as ' ' and each word capitalised, snippet = content.trim()
AllFiles ==
    << [path |-> "./documents/pride_prejudice_analysis.txt",
        filename |-> "pride_prejudice_analysis",
        cleanTitle |-> "Pride Prejudice Analysis", snippet |-> "Elizabeth and Darcy"],
       [path |-> "./documents/emma.md",
        filename |-> "emma", cleanTitle |-> "Emma", snippet |-> "Emma Woodhouse"],
       [path |-> "./documents/persuasion_notes.txt",
        filename |-> "persuasion_notes",
        cleanTitle |-> "Persuasion Notes", snippet |-> "Anne Elliot"],
       [path |-> "./documents/sense.txt",
        filename |-> "sense", cleanTitle |-> "Sense", snippet |-> "Elinor and Marianne"],
       [path |-> "./documents/mansfield_park.txt",
        filename |-> "mansfield_park",
        cleanTitle |-> "Mansfield Park", snippet |-> "Fanny Price"] >>

files == SubSeq(AllFiles, 1, Min(NumFiles, Len(AllFiles)))

\* the embedding provider: a vector for each text, of non-zero magnitude
EmbedText(text) ==
    CASE text = "Pride Prejudice Analysis. Elizabeth and Darcy" -> <<1, 1>>
      [] text = "Emma. Emma Woodhouse" -> <<2, 0>>
      [] text = "Persuasion Notes. Anne Elliot" -> <<-1, 1>>
      [] text = "Sense. Elinor and Marianne" -> <<0, 1>>
      [] text = "Mansfield Park. Fanny Price" -> <<-1, -2>>
      [] text = "who is darcy" -> <<1, 0>>
      [] OTHER -> <<1, 2>>

\* `${doc.data.title}. ${doc.data.snippet}`
DocText(doc) == doc.data.title \o ". " \o doc.data.snippet

\* req.body.prompt: no such property, the empty string, a truthy value that is
\* not a string, or a non-empty string
Prompts ==
    {Undefined, Def([kind |-> "string", s |-> ""]), Def([kind |-> "number"]),
     Def([kind |-> "string", s |-> "who is darcy"])}

\* !prompt
Falsy(prompt) == ~prompt.def \/ (prompt.v.kind = "string" /\ prompt.v.s = "")

\* what cohere.chat resolves to: a text, and citations or none
ChatReplies ==
    {[text |-> "Darcy is proud.", citations |-> Undefined],
     [text |-> "Darcy is proud.", citations |-> Def(<<>>)],
     [text |-> "Anne waits.", citations |-> Def(<<[document_ids |-> <<"doc_0">>]>>)]}

\* what a rejected provider call throws
ProviderErrors == {[message |-> "429 rate limit: api key sk-live"]}

(***************************************************************************)
(* State.                                                                  *)
(***************************************************************************)
VARIABLES
    \* SpecTopK
    tkPc, tkQuery, tkDocs, tkK, tkResult,
    \* the server process
    cacheFile,        \* what is on disk at EMBEDDINGS_FILE
    unreadable,       \* the paths of source documents fs.readFile rejects
    cachedDocuments,  \* let cachedDocuments
    initPc,           \* where initializeDocuments is suspended
    documents,        \* const documents of loadDocuments / initializeDocuments
    fileIdx,          \* the file the for-of loop of loadDocuments is reading
    allEmbeddings,    \* const allEmbeddings of embedDocumentsInBatches
    batchI,           \* let i of embedDocumentsInBatches (0-based)
    stats,            \* history: what the initialization task has done
    req,              \* the POST /generate requests
    \* SpecCache
    ccPc, ccCorpus, ccFile, ccLoaded,
    \* the chat UI (App) and its fetchWithRetry call
    input,            \* useState('') input
    messages,         \* useState([...]) messages
    isLoading,        \* useState(false) isLoading
    fetchPc,          \* where callChatbotAPI / fetchWithRetry is suspended
    fetchI,           \* let i of fetchWithRetry
    outcomes,         \* history: how each fetch attempt of the current call settled
    waits,            \* history: the setTimeout delays of the current call, in ms
    fetchEnd,         \* history: how the last fetchWithRetry call ended
    sends,            \* history: prompts sent so far
    consoleLog,       \* history: console.warn / console.error of the current call
    calls             \* history: callChatbotAPI calls that have not finished

topkVars == <<tkPc, tkQuery, tkDocs, tkK, tkResult>>
serverVars == <<cacheFile, unreadable, cachedDocuments, initPc, documents, fileIdx,
                allEmbeddings, batchI, stats, req>>
cacheVars == <<ccPc, ccCorpus, ccFile, ccLoaded>>
clientVars == <<input, messages, isLoading, fetchPc, fetchI, outcomes, waits, fetchEnd, sends,
                consoleLog, calls>>
vars == <<topkVars, serverVars, cacheVars, clientVars>>

(***************************************************************************)
(* SpecTopK: getTopKDocuments applied to bounded inputs.                   *)
(***************************************************************************)
\* embeddings of non-zero magnitude and equal dimension (spec 3 and 4.1), with
\* parallel, orthogonal and opposite pairs so that ties and negative scores occur
Vectors == {<<1, 0>>, <<2, 0>>, <<0, 1>>, <<1, 1>>, <<-1, 1>>, <<-1, -2>>}

MkDoc(id, vec) ==
    [id |-> id, data |-> [title |-> id, snippet |-> id], embedding |-> vec]

DocPool ==
    {MkDoc("a", <<1, 0>>), MkDoc("b", <<2, 0>>), MkDoc("c", <<0, 1>>),
     MkDoc("d", <<1, 1>>), MkDoc("e", <<-1, -2>>)}

TopKIdle ==
    /\ tkPc = "idle" /\ tkQuery = <<>> /\ tkDocs = <<>> /\ tkK = 0 /\ tkResult = <<>>

InitTopK ==
    /\ tkPc = "call"
    /\ tkQuery \in Vectors
    /\ tkDocs \in SeqsUpTo(DocPool, MaxDocs)
    /\ tkK \in 0..MaxK
    /\ tkResult = <<>>

CallGetTopK ==
    /\ tkPc = "call"
    /\ tkResult' = getTopKDocuments(tkQuery, tkDocs, tkK)
    /\ tkPc' = "returned"
    /\ UNCHANGED <<tkQuery, tkDocs, tkK, serverVars, cacheVars, clientVars>>

(***************************************************************************)
(* The server: the initialization task (initializeDocuments, started at    *)
(* module load and never awaited) and the POST /generate handlers.  Each   *)
(* action runs from one await to the next, as the event loop does.         *)
(***************************************************************************)
Requests == 1..MaxRequests

\* sent: the texts of each cohere.embed call; sleepMs: each sleep(ms) started;
\* failure: the call whose rejection ended initializeDocuments
NoStats == [fileReads |-> 0, embedCalls |-> 0, cacheWrites |-> 0, sleeps |-> 0,
            sent |-> <<>>, sleepMs |-> <<>>, failure |-> "none"]

IdleReq ==
    [pc |-> "idle", prompt |-> Undefined, corpus |-> Undefined, topDocuments |-> <<>>,
     reply |-> Undefined, error |-> Undefined, res |-> <<>>,
     embedCalls |-> 0, chatCalls |-> 0]

\* a cache file this program wrote in an earlier run
EarlierCorpora ==
    {<<>>,
     <<[id |-> "emma", data |-> [title |-> "Emma", snippet |-> "Emma Woodhouse"],
        embedding |-> <<2, 0>>],
       [id |-> "sense", data |-> [title |-> "Sense", snippet |-> "Elinor and Marianne"],
        embedding |-> <<0, 1>>]>>}

ServerIdle ==
    /\ cacheFile = FileMissing /\ unreadable = {} /\ cachedDocuments = Arr(<<>>)
    /\ initPc = "off" /\ documents = <<>> /\ fileIdx = 0 /\ allEmbeddings = <<>>
    /\ batchI = 0 /\ stats = NoStats /\ req = [r \in Requests |-> IdleReq]

\* module load: let cachedDocuments = []; initializeDocuments() has called
\* loadEmbeddingsFromFile, whose fs.readFile is pending
InitServer ==
    /\ cacheFile \in {FileMissing, FileGarbage, FileNotArray}
                        \cup {saveEmbeddingsToFile(c) : c \in EarlierCorpora}
    /\ unreadable \in SUBSET {files[i].path : i \in 1..Len(files)}
    /\ cachedDocuments = Arr(<<>>)
    /\ initPc = "loadEmbeddings"
    /\ documents = <<>>
    /\ fileIdx = 0
    /\ allEmbeddings = <<>>
    /\ batchI = 0
    /\ stats = NoStats
    /\ req = [r \in Requests |-> IdleReq]

Bump(field) == [stats EXCEPT ![field] = @ + 1]

\* documents.slice(i, i + batchSize)
BatchBug(docs, i) == SubSeq(docs, i + 1, Min(i + BatchSize + 1, Len(docs)))
Batch(docs, i) == SubSeq(docs, i + 1, Min(i + BatchSize, Len(docs)))

\* line 304: texts: batch.map(doc => `${doc.data.title}. ${doc.data.snippet}`)
BatchTexts(docs, i) ==
    LET batch == Batch(docs, i) IN [j \in 1..Len(batch) |-> DocText(batch[j])]

\* lines 300-307: cohere.embed is called with the batch that starts at i
CallEmbed(st, docs, i) ==
    [st EXCEPT !.embedCalls = @ + 1, !.sent = Append(@, BatchTexts(docs, i))]

\* embedDocumentsInBatches is entered with `docs`: either its first cohere.embed
\* call is made, or (no document) it returns [] and saveEmbeddingsToFile's
\* fs.writeFile is started
StartEmbedding(docs, st) ==
    /\ documents' = docs
    /\ allEmbeddings' = <<>>
    /\ batchI' = 0
    /\ IF Len(docs) > 0
       THEN /\ initPc' = "embedBatch"
            /\ stats' = CallEmbed(st, docs, 0)
       ELSE /\ initPc' = "writeFile"
            /\ stats' = st

\* the for-of loop of loadDocuments reads files[idx], or, past the last file,
\* returns and initializeDocuments goes on to embedDocumentsInBatches
ContinueLoad(docs, idx, st) ==
    IF idx <= Len(files)
    THEN /\ initPc' = "readFile"
         /\ fileIdx' = idx
         /\ documents' = docs
         /\ stats' = [st EXCEPT !.fileReads = @ + 1]
         /\ UNCHANGED <<allEmbeddings, batchI>>
    ELSE /\ fileIdx' = idx
         /\ StartEmbedding(docs, st)

\* line 345: cachedDocuments = await loadEmbeddingsFromFile(); if (!cachedDocuments) ...
LoadEmbeddingsDone ==
    /\ initPc = "loadEmbeddings"
    /\ LET loaded == loadEmbeddingsFromFile(cacheFile)
       IN  /\ cachedDocuments' = loaded
           /\ IF IsArr(loaded)
              THEN /\ initPc' = "done"
                   /\ UNCHANGED <<documents, fileIdx, allEmbeddings, batchI, stats>>
              ELSE ContinueLoad(<<>>, 1, stats)
    /\ UNCHANGED <<cacheFile, unreadable, req, topkVars, cacheVars, clientVars>>

\* lines 270-288: fs.readFile(file) settles; a document is pushed, or the error is logged
ReadFileDoc(f) ==
    [id |-> f.filename, data |-> [title |-> f.cleanTitle, snippet |-> f.snippet]]
PushIfReadBug(docs, f) == Append(docs, ReadFileDoc(f))
PushIfRead(docs, f) ==
    IF f.path \in unreadable THEN docs ELSE Append(docs, ReadFileDoc(f))
ReadFileDone ==
    /\ initPc = "readFile"
    /\ ContinueLoad(PushIfRead(documents, files[fileIdx]), fileIdx + 1, stats)
    /\ UNCHANGED <<cacheFile, unreadable, cachedDocuments, req, topkVars, cacheVars, clientVars>>


\* lines 303-310: cohere.embed resolves; the embeddings are pushed and sleep(10000) starts
EmbedBatchOk ==
    /\ initPc = "embedBatch"
    /\ LET texts == stats.sent[Len(stats.sent)]
           embeddings == [j \in 1..Len(texts) |-> EmbedText(texts[j])]
       IN  allEmbeddings' = allEmbeddings \o embeddings
    /\ initPc' = "sleep"
    /\ stats' = [stats EXCEPT !.sleeps = @ + 1, !.sleepMs = Append(@, SleepMs)]
    /\ UNCHANGED <<cacheFile, unreadable, cachedDocuments, documents, fileIdx, batchI, req, topkVars, cacheVars, clientVars>>

\* cohere.embed rejects: nothing catches it, initializeDocuments rejects
EmbedBatchFailBug ==
    /\ initPc = "embedBatch"
    /\ stats.embedCalls <= Len(documents)
    /\ initPc' = "embedBatch"
    /\ stats' = [CallEmbed(stats, documents, batchI) EXCEPT !.failure = "embed"]
    /\ UNCHANGED <<cacheFile, unreadable, cachedDocuments, documents, fileIdx,
                   allEmbeddings, batchI, req, topkVars, cacheVars, clientVars>>
EmbedBatchFail ==
    /\ initPc = "embedBatch"
    /\ initPc' = "failed"
    /\ stats' = [stats EXCEPT !.failure = "embed"]
    /\ UNCHANGED <<cacheFile, unreadable, cachedDocuments, documents, fileIdx,
                   allEmbeddings, batchI, req, topkVars, cacheVars, clientVars>>

\* lines 352-354: allEmbeddings.forEach((embedding, i) => documents[i].embedding = embedding)
WithEmbeddings(docs, embs) ==
    [i \in 1..Len(docs) |->
        IF i <= Len(embs)
        THEN [id |-> docs[i].id, data |-> docs[i].data, embedding |-> embs[i]]
        ELSE docs[i]]

\* the sleep ends: the next batch is sent, or the loop ends, the embeddings are
\* attached and saveEmbeddingsToFile's fs.writeFile is started
SleepDone ==
    /\ initPc = "sleep"
    /\ batchI' = batchI + BatchSize
    /\ IF batchI + BatchSize < Len(documents)
       THEN /\ initPc' = "embedBatch"
            /\ stats' = CallEmbed(stats, documents, batchI + BatchSize)
            /\ UNCHANGED documents
       ELSE /\ initPc' = "writeFile"
            /\ documents' = WithEmbeddings(documents, allEmbeddings)
            /\ UNCHANGED stats
    /\ UNCHANGED <<cacheFile, unreadable, cachedDocuments, fileIdx, allEmbeddings, req, topkVars, cacheVars, clientVars>>

\* lines 324-325 and 357-358: fs.writeFile resolves; cachedDocuments = documents
WriteFileOk ==
    /\ initPc = "writeFile"
    /\ cacheFile' = saveEmbeddingsToFile(documents)
    /\ cachedDocuments' = Arr(documents)
    /\ stats' = Bump("cacheWrites")
    /\ initPc' = "done"
    /\ UNCHANGED <<unreadable, documents, fileIdx, allEmbeddings, batchI, req, topkVars, cacheVars, clientVars>>

\* fs.writeFile rejects (no ./documents directory): initializeDocuments rejects
WriteFileFailBug ==
    /\ initPc = "writeFile"
    /\ initPc' = "failed"
    /\ cachedDocuments' = Arr(documents)
    /\ stats' = [stats EXCEPT !.failure = "write"]
    /\ UNCHANGED <<cacheFile, unreadable, documents, fileIdx,
                   allEmbeddings, batchI, req, topkVars, cacheVars, clientVars>>
WriteFileFail ==
    /\ initPc = "writeFile"
    /\ initPc' = "failed"
    /\ stats' = [stats EXCEPT !.failure = "write"]
    /\ UNCHANGED <<cacheFile, unreadable, cachedDocuments, documents, fileIdx,
                   allEmbeddings, batchI, req, topkVars, cacheVars, clientVars>>

initUnchanged == <<cacheFile, unreadable, cachedDocuments, initPc, documents, fileIdx,
                   allEmbeddings, batchI, stats, topkVars, cacheVars, clientVars>>

\* the catch block of the handler: lines 411-414
CatchBodyBug(err) == [error |-> err.message]
CatchBody(err) == [error |-> "Cohere request failed"]
Catch(r, err) ==
    [r EXCEPT !.pc = "done", !.error = Def(err),
              !.res = Append(@, [status |-> 500, body |-> CatchBody(err)])]

\* lines 367-382: the request arrives; 400 without a prompt, else the query is embedded
TypeErrors == [substring |-> [message |-> "prompt.substring is not a function"],
               map |-> [message |-> "Cannot read properties of null (reading 'map')"]]
PromptMissingBug(prompt) == ~prompt.def
PromptMissing(prompt) == Falsy(prompt)
Receive(r, prompt) ==
    /\ req[r].pc = "idle"
    /\ initPc # "off"
    /\ LET r0 == [req[r] EXCEPT !.prompt = prompt]
       IN  req' = [req EXCEPT ![r] =
              IF PromptMissing(prompt)
              THEN [r0 EXCEPT !.pc = "done",
                              !.res = Append(@, [status |-> 400,
                                                 body |-> [error |-> "Prompt is required"]])]
              ELSE IF prompt.v.kind # "string"
              THEN Catch(r0, TypeErrors.substring)
              ELSE [r0 EXCEPT !.pc = "embedQuery", !.embedCalls = @ + 1]]
    /\ UNCHANGED initUnchanged

\* lines 384-401: the query embedding arrives, the top documents are retrieved
\* from cachedDocuments as it is now, and cohere.chat is called
RetrieveBug(r, corpus) ==
    [r EXCEPT !.pc = "chat", !.corpus = Def(corpus), !.chatCalls = @ + 1,
              !.topDocuments = IF IsArr(corpus)
                               THEN getTopKDocuments(EmbedText(r.prompt.v.s), corpus.v, TopK)
                               ELSE <<>>]
Retrieve(r, corpus) ==
    IF IsArr(corpus)
    THEN [r EXCEPT !.pc = "chat", !.corpus = Def(corpus), !.chatCalls = @ + 1,
                   !.topDocuments = getTopKDocuments(EmbedText(r.prompt.v.s), corpus.v, TopK)]
    ELSE Catch([r EXCEPT !.corpus = Def(corpus)], TypeErrors.map)
EmbedQueryOk(r) ==
    /\ req[r].pc = "embedQuery"
    /\ req' = [req EXCEPT ![r] = Retrieve(req[r], cachedDocuments)]
    /\ cachedDocuments' = IF IsArr(cachedDocuments)
                          THEN Arr(DocumentsAfterTopK(EmbedText(req[r].prompt.v.s),
                                                     cachedDocuments.v))
                          ELSE cachedDocuments
    /\ UNCHANGED <<cacheFile, unreadable, initPc, documents, fileIdx, allEmbeddings,
                   batchI, stats, topkVars, cacheVars, clientVars>>

\* cohere.embed or cohere.chat rejects
ProviderFail(r, err) ==
    /\ req[r].pc \in {"embedQuery", "chat"}
    /\ req' = [req EXCEPT ![r] = Catch(req[r], err)]
    /\ UNCHANGED initUnchanged

\* lines 403-409: res.json({text: response.text, citations: response.citations ?? []})
OkBodyBug(response) ==
    [text |-> response.text, citations |-> <<>>]
OkBody(response) ==
    [text |-> response.text,
     citations |-> IF response.citations.def THEN response.citations.v ELSE <<>>]
ChatOk(r, response) ==
    /\ req[r].pc = "chat"
    /\ req' = [req EXCEPT ![r] =
                 [req[r] EXCEPT !.pc = "done", !.reply = Def(response),
                                !.res = Append(@, [status |-> 200, body |-> OkBody(response)])]]
    /\ UNCHANGED initUnchanged

(***************************************************************************)
(* SpecCache: saveEmbeddingsToFile, then loadEmbeddingsFromFile.           *)
(***************************************************************************)
\* documents as initializeDocuments hands them to saveEmbeddingsToFile: with an
\* embedding, or without one when the provider returned fewer vectors than texts
CachePool ==
    {[id |-> "emma", data |-> [title |-> "Emma", snippet |-> "Emma Woodhouse"],
      embedding |-> <<2, 0>>],
     [id |-> "sense", data |-> [title |-> "Sense", snippet |-> "Elinor and Marianne"],
      embedding |-> <<0, 1>>],
     [id |-> "sense", data |-> [title |-> "Sense", snippet |-> "Sense"],
      embedding |-> <<-1, -2>>],
     [id |-> "mansfield_park", data |-> [title |-> "Mansfield Park", snippet |-> "Fanny Price"]]}

CacheIdle ==
    /\ ccPc = "idle" /\ ccCorpus = <<>> /\ ccFile = FileMissing /\ ccLoaded = Null

InitCache ==
    /\ ccPc = "save"
    /\ ccCorpus \in SeqsUpTo(CachePool, MaxDocs)
    /\ ccFile \in {FileMissing, FileGarbage}
    /\ ccLoaded = Null

CacheSave ==
    /\ ccPc = "save"
    /\ ccFile' = saveEmbeddingsToFile(ccCorpus)
    /\ ccPc' = "load"
    /\ UNCHANGED <<ccCorpus, ccLoaded, topkVars, serverVars, clientVars>>

CacheLoad ==
    /\ ccPc = "load"
    /\ ccLoaded' = loadEmbeddingsFromFile(ccFile)
    /\ ccPc' = "loaded"
    /\ UNCHANGED <<ccCorpus, ccFile, topkVars, serverVars, clientVars>>

(***************************************************************************)
(* The chat UI: handleSendMessage, callChatbotAPI and fetchWithRetry.      *)
(* Each action runs from one await to the next.                            *)
(***************************************************************************)
Greeting == [text |-> "Greetings! I'm Bookworm Bot.", sources |-> <<>>, sender |-> "gemini"]
NetworkErrorText == "Network error or API failure. Please check your Render deployment URL and status."
Apology == "I apologize, I lost my place in the book and cannot generate a response right now."

\* what the user may have typed, and input.trim()
Inputs == {"", "   ", " who is darcy "}
Trim(text) == IF text = " who is darcy " THEN "who is darcy" ELSE ""

\* how one fetch(url, options) settles: a response (ok is status 200..299, and the
\* server's 200 body is {text, citations}), or a rejection (network failure)
FetchOutcomes ==
    {[kind |-> "response", status |-> 200, body |-> [text |-> "Darcy is proud.", citations |-> <<>>]],
     [kind |-> "response", status |-> 200, body |-> [text |-> "", citations |-> <<>>]],
     [kind |-> "response", status |-> 200,
      body |-> [text |-> "Anne waits.", citations |-> <<[document_ids |-> <<"doc_0">>]>>]],
     [kind |-> "response", status |-> 400], [kind |-> "response", status |-> 404],
     [kind |-> "response", status |-> 429], [kind |-> "response", status |-> 500],
     [kind |-> "reject"]}
Ok(outcome) == outcome.kind = "response" /\ outcome.status >= 200 /\ outcome.status <= 299

ClientIdle ==
    /\ input = "" /\ messages = <<>> /\ isLoading = FALSE /\ fetchPc = "off"
    /\ fetchI = 0 /\ outcomes = <<>> /\ waits = <<>> /\ fetchEnd = "none" /\ sends = 0
    /\ consoleLog = <<>> /\ calls = 0

InitClient ==
    /\ input = ""
    /\ messages = <<Greeting>>
    /\ isLoading = FALSE
    /\ fetchPc = "idle"
    /\ fetchI = 0
    /\ outcomes = <<>>
    /\ waits = <<>>
    /\ fetchEnd = "none"
    /\ sends = 0
    /\ consoleLog = <<>>
    /\ calls = 0

clientFrame == <<topkVars, serverVars, cacheVars>>

\* onChange of the input box: setInput(e.target.value)
TypeInput(text) ==
    /\ fetchPc # "off"
    /\ input # text
    /\ input' = text
    /\ UNCHANGED <<messages, isLoading, fetchPc, fetchI, outcomes, waits, fetchEnd, sends,
                   consoleLog, calls, clientFrame>>

\* handleSendMessage ignores the submission: !input.trim() || isLoading
SubmitIgnoredBug == FALSE
SubmitIgnored == Trim(input) = "" \/ isLoading

\* handleSendMessage, then callChatbotAPI up to the first fetch of fetchWithRetry
handleSendMessage ==
    /\ fetchPc # "off"
    /\ sends < MaxSends
    /\ ~SubmitIgnored
    /\ messages' = Append(messages, [text |-> Trim(input), sources |-> <<>>, sender |-> "user"])
    /\ input' = ""
    /\ isLoading' = TRUE
    /\ fetchPc' = "fetch"
    /\ fetchI' = 0
    /\ outcomes' = <<>>
    /\ waits' = <<>>
    /\ fetchEnd' = "none"
    /\ sends' = sends + 1
    /\ consoleLog' = <<>>
    /\ calls' = calls + 1
    /\ UNCHANGED clientFrame

\* line 17: console.warn(`Attempt ${i + 1} failed with status ...`)
Warn(i) == [level |-> "warn", attempt |-> i + 1]

\* line 80: console.error("API Call Error:", error); attempt is the attempt whose
\* error was thrown, 0 for the TypeError of reading .json of undefined
LogError(attempt) == [level |-> "error", attempt |-> attempt]

\* the catch and finally blocks of callChatbotAPI
ShowErrorBug(attempt) ==
    /\ consoleLog' = Append(consoleLog, LogError(attempt))
    /\ messages' = Append(messages, [text |-> NetworkErrorText, sources |-> <<>>,
                                     sender |-> "gemini"])
    /\ isLoading' = isLoading
    /\ calls' = calls - 1
    /\ fetchPc' = "idle"
ShowError(attempt) ==
    /\ consoleLog' = Append(consoleLog, LogError(attempt))
    /\ messages' = Append(messages, [text |-> NetworkErrorText, sources |-> <<>>,
                                     sender |-> "gemini"])
    /\ isLoading' = FALSE
    /\ calls' = calls - 1
    /\ fetchPc' = "idle"

\* line 16: response.status === 429 || response.status >= 500 && i < retries - 1
RetryStatusBug(status, i) == status = 429 \/ status >= 500
RetryStatus(status, i) == status = 429 \/ (status >= 500 /\ i < retries - 1)

\* line 18 and line 24: setTimeout(resolve, delay * Math.pow(2, i))
BackoffBug(i) == delay
Backoff(i) == delay * 2^i

\* line 10: the loop goes on while i < retries
LoopGoesOnBug(i) == i <= retries
LoopGoesOn(i) == i < retries

\* one fetch settles.  ok: the response is returned and response.json() starts.
\* A retryable status: warn, sleep, continue.  Anything else throws into the
\* catch of line 22, which rethrows on the last attempt and sleeps otherwise.
FetchSettles(outcome) ==
    /\ fetchPc = "fetch"
    /\ outcomes' = Append(outcomes, outcome)
    /\ IF Ok(outcome)
       THEN /\ fetchPc' = "json"
            /\ fetchEnd' = "returned"
            /\ UNCHANGED <<messages, isLoading, waits, consoleLog, calls>>
       ELSE IF outcome.kind = "response" /\ RetryStatus(outcome.status, fetchI)
       THEN /\ fetchPc' = "sleep"
            /\ consoleLog' = Append(consoleLog, Warn(fetchI))
            /\ waits' = Append(waits, Backoff(fetchI))
            /\ UNCHANGED <<messages, isLoading, fetchEnd, calls>>
       ELSE IF fetchI = retries - 1
       THEN /\ fetchEnd' = "threw"
            /\ ShowError(fetchI + 1)
            /\ UNCHANGED waits
       ELSE /\ fetchPc' = "sleep"
            /\ waits' = Append(waits, Backoff(fetchI))
            /\ UNCHANGED <<messages, isLoading, fetchEnd, consoleLog, calls>>
    /\ UNCHANGED <<input, fetchI, sends, clientFrame>>

\* the timer fires: i++, and either the next fetch is issued or the loop ends and
\* fetchWithRetry returns undefined, whose .json() throws in callChatbotAPI
TimerFires ==
    /\ fetchPc = "sleep"
    /\ fetchI' = fetchI + 1
    /\ IF LoopGoesOn(fetchI + 1)
       THEN /\ fetchPc' = "fetch"
            /\ UNCHANGED <<messages, isLoading, fetchEnd, consoleLog, calls>>
       ELSE /\ fetchEnd' = "undefined"
            /\ ShowError(0)
    /\ UNCHANGED <<input, outcomes, waits, sends, clientFrame>>

\* lines 61-77: response.json() resolves and the answer is appended
FullResponse(result) ==
    [text |-> IF result.text # "" THEN result.text ELSE Apology,
     sources |-> [k \in 1..Len(result.citations) |-> result.citations[k].document_ids[1]],
     sender |-> "gemini"]
JsonResolves ==
    /\ fetchPc = "json"
    /\ messages' = Append(messages, FullResponse(outcomes[Len(outcomes)].body))
    /\ isLoading' = FALSE
    /\ calls' = calls - 1
    /\ fetchPc' = "idle"
    /\ UNCHANGED <<input, fetchI, outcomes, waits, fetchEnd, sends, consoleLog, clientFrame>>

(***************************************************************************)
(* Specifications.                                                         *)
(***************************************************************************)
Init == InitServer /\ TopKIdle /\ CacheIdle /\ ClientIdle

Next ==
    \/ LoadEmbeddingsDone
    \/ ReadFileDone
    \/ EmbedBatchOk
    \/ EmbedBatchFail
    \/ SleepDone
    \/ WriteFileOk
    \/ WriteFileFail
    \/ \E r \in Requests, prompt \in Prompts : Receive(r, prompt)
    \/ \E r \in Requests : EmbedQueryOk(r)
    \/ \E r \in Requests, err \in ProviderErrors : ProviderFail(r, err)
    \/ \E r \in Requests, response \in ChatReplies : ChatOk(r, response)

Spec == Init /\ [][Next]_vars

InitSpecTopK == InitTopK /\ ServerIdle /\ CacheIdle /\ ClientIdle

NextTopK == CallGetTopK

SpecTopK == InitSpecTopK /\ [][NextTopK]_vars

InitSpecCache == InitCache /\ ServerIdle /\ TopKIdle /\ ClientIdle

NextCache == CacheSave \/ CacheLoad

SpecCache == InitSpecCache /\ [][NextCache]_vars

InitSpecClient == InitClient /\ ServerIdle /\ TopKIdle /\ CacheIdle

NextClient ==
    \/ \E text \in Inputs : TypeInput(text)
    \/ handleSendMessage
    \/ \E outcome \in FetchOutcomes : FetchSettles(outcome)
    \/ TimerFires
    \/ JsonResolves

SpecClient == InitSpecClient /\ [][NextClient]_vars

\* the chat UI when every fetch settles, every timer fires and every
\* response.json() settles
SpecClientLive ==
    /\ InitSpecClient
    /\ [][NextClient]_vars
    /\ WF_vars(\E outcome \in FetchOutcomes : FetchSettles(outcome))
    /\ WF_vars(TimerFires)
    /\ WF_vars(JsonResolves)

(***************************************************************************)
(* Properties.                                                             *)
(***************************************************************************)
Handled(r) == req[r].pc # "idle"

\* C1: a POST /generate request whose prompt is missing or empty is answered with
\* status 400 and an error body, and neither cohere.embed nor cohere.chat is
\* called for it.
C1_EmptyPromptRejected ==
    \A r \in Requests :
        (Handled(r) /\ (~req[r].prompt.def \/ req[r].prompt.v = [kind |-> "string", s |-> ""]))
        => /\ req[r].res = <<[status |-> 400, body |-> [error |-> "Prompt is required"]]>>
           /\ req[r].embedCalls = 0
           /\ req[r].chatCalls = 0
C1_Witness ==
    \E r \in Requests :
        /\ req[r].pc = "done"
        /\ req[r].prompt = Def([kind |-> "string", s |-> ""])
        /\ Len(req[r].res) = 1 /\ req[r].res[1].status = 400

\* C2: when the embedding call and the chat call of a request both succeed, the
\* response is 200 {text, citations} with the chat provider's text and its
\* citations, the empty sequence when it returned none.
C2_ReplyVerbatim ==
    \A r \in Requests :
        req[r].reply.def
        => LET response == req[r].reply.v
           IN  /\ Len(req[r].res) = 1
               /\ req[r].res[1].status = 200
               /\ req[r].res[1].body.text = response.text
               /\ req[r].res[1].body.citations =
                    (IF response.citations.def THEN response.citations.v ELSE <<>>)
C2_Witness ==
    \E r \in Requests :
        /\ req[r].reply.def
        /\ req[r].reply.v.citations.def
        /\ Len(req[r].reply.v.citations.v) = 1
        /\ req[r].res[1].body.citations = req[r].reply.v.citations.v

\* C3: when the embedding call or the chat call of a request fails, the response
\* is status 500 with the fixed body {error: 'Cohere request failed'}, which holds
\* nothing of the provider's error.
C3_GenericFailure ==
    \A r \in Requests :
        (req[r].error.def /\ req[r].error.v \in ProviderErrors)
        => /\ req[r].res = <<[status |-> 500, body |-> [error |-> "Cohere request failed"]]>>
           /\ req[r].res[1].body.error # req[r].error.v.message
C3_Witness ==
    \E r \in Requests :
        /\ req[r].error.def /\ req[r].error.v \in ProviderErrors
        /\ req[r].chatCalls = 1
        /\ Len(req[r].res) = 1 /\ req[r].res[1].status = 500

\* C4: whenever a request's retrieval reads cachedDocuments, also while
\* initializeDocuments has not completed, it reads a sequence of documents.
C4_CorpusAlwaysSequence ==
    \A r \in Requests : req[r].corpus.def => IsArr(req[r].corpus.v)

\* the score getTopKDocuments gives a document
ScoreOf(doc) == cosineSimilarity(tkQuery, doc.embedding)
Descending(docs) ==
    \A i, j \in 1..Len(docs) : i < j => ScoreDiffSign(ScoreOf(docs[i]), ScoreOf(docs[j])) >= 0
Occurrences(docs, d) == Cardinality({i \in 1..Len(docs) : docs[i] = d})

\* C5: getTopKDocuments returns at most min(k, corpus size) documents, in
\* non-increasing order of cosine similarity to the query.
C5_TopKBoundedSorted ==
    tkPc = "returned"
    => /\ Len(tkResult) <= Min(tkK, Len(tkDocs))
       /\ Descending(tkResult)
C5_Witness ==
    /\ tkPc = "returned"
    /\ tkK = 2 /\ Len(tkDocs) = 3 /\ Len(tkResult) = 2
    /\ tkResult # SubSeq(tkDocs, 1, 2)
    /\ ScoreDiffSign(ScoreOf(tkResult[1]), ScoreOf(tkResult[2])) > 0

\* C6: with k >= corpus size, getTopKDocuments returns a permutation of the whole
\* corpus (every document as often as the corpus holds it), in descending-score
\* order.
C6_TopKAllWhenKLarge ==
    (tkPc = "returned" /\ tkK >= Len(tkDocs))
    => /\ Len(tkResult) = Len(tkDocs)
       /\ \A d \in DocPool : Occurrences(tkResult, d) = Occurrences(tkDocs, d)
       /\ Descending(tkResult)
C6_Witness ==
    /\ tkPc = "returned"
    /\ tkK >= Len(tkDocs) /\ Len(tkDocs) = 3
    /\ tkResult # tkDocs
    /\ \E i \in 1..2 : ScoreDiffSign(ScoreOf(tkResult[i]), ScoreOf(tkResult[i + 1])) = 0

\* the (id, title, snippet, embedding) tuple of a document
DocTuple(doc) ==
    <<Prop(doc, "id"), Prop(doc.data, "title"), Prop(doc.data, "snippet"),
      Prop(doc, "embedding")>>

\* C7: saveEmbeddingsToFile followed by loadEmbeddingsFromFile yields a sequence
\* of the same length whose (id, title, snippet, embedding) tuples are those
\* saved, in the same order.
C7_CacheRoundTrip ==
    ccPc = "loaded"
    => /\ IsArr(ccLoaded)
       /\ Len(ccLoaded.v) = Len(ccCorpus)
       /\ \A i \in 1..Len(ccCorpus) : DocTuple(ccLoaded.v[i]) = DocTuple(ccCorpus[i])
C7_Witness ==
    /\ ccPc = "loaded"
    /\ Len(ccCorpus) = 3
    /\ "embedding" \notin DOMAIN ccCorpus[2]
    /\ ccCorpus[1].data.title # ccCorpus[1].data.snippet
    /\ ccCorpus[1] # ccCorpus[3]
    /\ IsArr(ccLoaded) /\ Len(ccLoaded.v) = 3

\* the documents of the readable files among the first n paths, in path order
RECURSIVE ReadableDocs(_)
ReadableDocs(n) ==
    IF n = 0 THEN <<>>
    ELSE IF files[n].path \in unreadable THEN ReadableDocs(n - 1)
         ELSE Append(ReadableDocs(n - 1),
                     [id |-> files[n].filename,
                      data |-> [title |-> files[n].cleanTitle, snippet |-> files[n].snippet]])
WithoutEmbedding(doc) == [id |-> doc.id, data |-> doc.data]
LoadDocumentsReturned == fileIdx > Len(files)

\* C8: loadDocuments does not throw: after each read it holds one document per
\* readable path read so far, in path order, and none for an unreadable path;
\* it returns them and the initialization goes on.
C8_LoadSkipsUnreadable ==
    /\ fileIdx >= 1 =>
         [i \in 1..Len(documents) |-> WithoutEmbedding(documents[i])]
            = ReadableDocs(IF initPc = "readFile" THEN fileIdx - 1 ELSE Len(files))
    /\ initPc = "readFile" => fileIdx \in 1..Len(files)
    /\ LoadDocumentsReturned => initPc \in {"embedBatch", "sleep", "writeFile", "done", "failed"}
    /\ (LoadDocumentsReturned /\ initPc = "failed") => (stats.embedCalls > 0 \/ documents = <<>>)
C8_Witness ==
    /\ LoadDocumentsReturned
    /\ Cardinality(unreadable) = 1
    /\ Len(documents) = Len(files) - 1
    /\ Len(documents) >= 1

\* the cache file found at startup cannot be deserialized into a sequence
CacheMiss == stats.cacheWrites > 0 \/ cacheFile.t \in {"missing", "garbage", "notArray"}

\* C9: initialization recomputes exactly when the cache file is missing or
\* unparsable: then loadEmbeddingsFromFile returns null (cachedDocuments is null
\* until the new corpus is published) and loadDocuments is entered; on a cache
\* hit the corpus is the file's, and no source document is read, no embedding
\* call is made and the cache file is not written.
C9_RecomputeIffNoCache ==
    initPc # "loadEmbeddings"
    => IF CacheMiss
       THEN /\ fileIdx >= 1
            /\ stats.cacheWrites = 0 => cachedDocuments = Null
       ELSE /\ initPc = "done"
            /\ fileIdx = 0
            /\ stats = NoStats
            /\ IsArr(cachedDocuments)
            /\ saveEmbeddingsToFile(cachedDocuments.v) = cacheFile
C9_Witness ==
    /\ initPc = "done"
    /\ ~CacheMiss
    /\ IsArr(cachedDocuments) /\ Len(cachedDocuments.v) = 2
    /\ stats = NoStats

ErrorShown ==
    /\ fetchPc = "idle" /\ sends > 0
    /\ messages[Len(messages)].text = NetworkErrorText

C12_RequestStateMachine ==
    \A r \in Requests :
        /\ req[r].embedCalls <= 1 /\ req[r].chatCalls <= 1
        /\ req[r].pc = "embedQuery" => (req[r].embedCalls = 1 /\ req[r].chatCalls = 0)
        /\ req[r].chatCalls = 1
             => /\ req[r].embedCalls = 1
                /\ req[r].corpus.def /\ IsArr(req[r].corpus.v)
                /\ req[r].topDocuments
                     = getTopKDocuments(EmbedText(req[r].prompt.v.s), req[r].corpus.v.v, TopK)
        /\ req[r].pc = "chat" => req[r].chatCalls = 1
        /\ Len(req[r].res) = (IF req[r].pc = "done" THEN 1 ELSE 0)
        /\ (req[r].pc = "done" /\ req[r].res[1].status = 200)
             => (req[r].reply.def /\ req[r].chatCalls = 1 /\ ~req[r].error.def)
        /\ (req[r].pc = "done" /\ req[r].res[1].status # 200)
             => (~req[r].reply.def /\ (req[r].error.def \/ req[r].res[1].status = 400))
C12_Witness ==
    \E r1, r2 \in Requests :
        /\ req[r1].pc = "done" /\ req[r1].res[1].status = 200
        /\ req[r1].embedCalls = 1 /\ req[r1].chatCalls = 1
        /\ Len(req[r1].topDocuments) = 3
        /\ req[r2].pc = "done" /\ req[r2].res[1].status = 500
        /\ req[r2].embedCalls = 1 /\ req[r2].chatCalls = 0

\* C13: an embedding call that fails during initialization is not retried: it is
\* the last embedding call, initializeDocuments ends there, the cache file is
\* not written and no corpus is published (cachedDocuments stays null).
C13_InitEmbedFailureFatal ==
    stats.failure = "embed"
    => /\ initPc = "failed"
       /\ stats.embedCalls = Len(stats.sleepMs) + 1
       /\ stats.cacheWrites = 0
       /\ cacheFile.t # "text"
       /\ cachedDocuments = Null
C13_Witness ==
    /\ stats.failure = "embed"
    /\ stats.embedCalls = 2
    /\ Len(allEmbeddings) = BatchSize
    /\ initPc = "failed"

Ceil(n, b) == (n + b - 1) \div b
HasEmbedding(doc) == "embedding" \in DOMAIN doc

\* C14: the cache file is written at most once in a run, only on the cache-miss
\* path and only when every batch has been embedded; the records written are
\* those of every loaded document; and a corpus is published on that path only
\* with the file written.
C14_CacheWrittenOnce ==
    /\ stats.cacheWrites <= 1
    /\ fileIdx = 0 => stats.cacheWrites = 0
    /\ stats.cacheWrites = 1
         => /\ initPc = "done" /\ stats.failure = "none"
            /\ fileIdx > Len(files)
            /\ Len(stats.sent) = Ceil(Len(documents), BatchSize)
            /\ Len(stats.sleepMs) = Len(stats.sent)
            /\ Len(documents) = Len(ReadableDocs(Len(files)))
            /\ \A i \in 1..Len(documents) : HasEmbedding(documents[i])
            /\ cacheFile = saveEmbeddingsToFile(documents)
            /\ Len(cacheFile.v) = Len(documents)
    /\ (fileIdx >= 1 /\ IsArr(cachedDocuments))
         => (stats.cacheWrites = 1 /\ cachedDocuments = Arr(documents))
C14_Witness ==
    /\ stats.cacheWrites = 1
    /\ Cardinality(unreadable) = 1
    /\ Len(documents) = 2
    /\ cachedDocuments = Arr(documents)
    /\ cacheFile.t = "text" /\ Len(cacheFile.v) = 2

EmbeddingReturned == initPc \in {"writeFile", "done"} \/ stats.failure = "write"

\* C15: for n documents and batch size b, embedDocumentsInBatches calls the
\* provider with the documents' texts in order, b at a time (the last call with
\* the rest), sleeps the fixed delay after every batch that was embedded, and
\* returns after exactly ceil(n/b) calls with n vectors, vector i the embedding
\* of document i.
C15_BatchedEmbedding ==
    LoadDocumentsReturned
    => LET n == Len(documents)
           sent == stats.sent
       IN  /\ stats.embedCalls = Len(sent)
           /\ Len(sent) <= Ceil(n, BatchSize)
           /\ \A c \in 1..Len(sent) :
                /\ Len(sent[c]) = Min(BatchSize, n - (c - 1) * BatchSize)
                /\ \A j \in 1..Len(sent[c]) :
                     sent[c][j] = DocText(documents[(c - 1) * BatchSize + j])
           /\ \A c \in 1..Len(stats.sleepMs) : stats.sleepMs[c] = SleepMs
           /\ Len(stats.sleepMs) = (IF initPc = "embedBatch" \/ stats.failure = "embed"
                                    THEN Len(sent) - 1 ELSE Len(sent))
           /\ EmbeddingReturned
                => /\ Len(sent) = Ceil(n, BatchSize)
                   /\ Len(allEmbeddings) = n
                   /\ \A i \in 1..n :
                        /\ allEmbeddings[i] = EmbedText(DocText(documents[i]))
                        /\ documents[i].embedding = allEmbeddings[i]
C15_Witness ==
    /\ initPc = "writeFile"
    /\ Len(documents) = 3
    /\ Len(stats.sent) = 2
    /\ Len(stats.sent[1]) = 2 /\ Len(stats.sent[2]) = 1
    /\ stats.sleepMs = <<SleepMs, SleepMs>>
    /\ Len(allEmbeddings) = 3

\* the corpus initializeDocuments publishes: the parsed cache on a hit (line
\* 345), the embedded documents on a miss (line 357)
PublishedCorpus ==
    IF fileIdx = 0 THEN loadEmbeddingsFromFile(cacheFile) ELSE Arr(documents)

\* C16: request handling only reads the corpus: no step of a /generate request
\* changes cachedDocuments, and once initialization is done cachedDocuments is
\* the corpus it published, whatever requests have run since.
C16_RequestsLeaveCorpus ==
    /\ [](initPc = "done" => cachedDocuments = PublishedCorpus)
    /\ [][req' # req => cachedDocuments' = cachedDocuments]_vars
C16_Witness ==
    /\ initPc = "done"
    /\ IsArr(cachedDocuments) /\ Len(cachedDocuments.v) >= 2
    /\ \A r \in Requests :
         /\ req[r].pc = "done"
         /\ Len(req[r].topDocuments) >= 2
         /\ req[r].topDocuments[1] # cachedDocuments.v[1]

\* the fetch attempts the current call has made, the one in flight included
AttemptsMade == IF fetchPc = "fetch" THEN Len(outcomes) + 1 ELSE Len(outcomes)
Is400(outcome) == outcome.kind = "response" /\ outcome.status = 400

\* C11: a 400 answer is not retried: when an attempt is answered with status
\* 400, fetchWithRetry makes no further fetch attempt for that call.
C11_NoRetryAfter400 ==
    \A n \in 1..Len(outcomes) : Is400(outcomes[n]) => AttemptsMade = n

\* a failed attempt of the current call has a console entry
Logged(n) == \E e \in 1..Len(consoleLog) : consoleLog[e].attempt = n

\* C17: no error is dropped without a log entry: every fetch attempt that
\* failed (a network error or a non-ok status), intermediate retry attempts
\* included, has a console.warn or console.error entry by the time it is
\* discarded.
C17_EveryFailureLogged ==
    \A n \in 1..Len(outcomes) : ~Ok(outcomes[n]) => Logged(n)

\* C18: a fetchWithRetry call ends by returning a response with ok = true or by
\* throwing; it never completes by returning undefined.
C18_ReturnsOkOrThrows ==
    /\ fetchEnd \in {"none", "returned", "threw"}
    /\ fetchEnd = "returned" => Ok(outcomes[Len(outcomes)])

\* C19: at most one chat request is outstanding: isLoading is true exactly
\* while a callChatbotAPI call is in progress, there is never more than one,
\* and a submission is accepted only when isLoading is false and the trimmed
\* input is not empty.
C19_OneRequestOutstanding ==
    /\ [](/\ calls \in {0, 1}
          /\ isLoading <=> calls = 1
          /\ isLoading <=> fetchPc \in {"fetch", "sleep", "json"})
    /\ [][sends' # sends => (~isLoading /\ Trim(input) # "" /\ calls' = 1)]_vars
C19_Witness ==
    /\ isLoading /\ calls = 1 /\ sends = 1
    /\ fetchPc = "sleep"
    /\ input = " who is darcy "

AssistantMessages == Len(SelectSeq(messages, LAMBDA m : m.sender = "gemini")) - 1

\* C20: when every fetch attempt settles, every accepted user message is
\* followed by exactly one assistant message (the answer or the generic error)
\* and isLoading returns to false.
C20_EveryMessageAnswered ==
    /\ [](/\ Len(messages) = 1 + 2 * sends - (IF isLoading THEN 1 ELSE 0)
          /\ AssistantMessages = sends - (IF isLoading THEN 1 ELSE 0)
          /\ \A k \in 1..sends : messages[2 * k].sender = "user")
    /\ \A s \in 1..MaxSends :
         (sends = s /\ isLoading)
           ~> (/\ sends = s /\ ~isLoading
               /\ Len(messages) = 1 + 2 * s
               /\ messages[2 * s + 1].sender = "gemini")
C20_Witness ==
    /\ sends = MaxSends /\ ~isLoading
    /\ messages[3].text = NetworkErrorText
    /\ messages[5].text = "Darcy is proud."
    /\ fetchEnd = "returned" /\ Len(outcomes) = retries

====
